---- MODULE Spec2Model ----
(***************************************************************************)
(* Peterson's two-process lock with a timeout (PetersonLock), its usage    *)
(* statistics (ProcessStats) and the counter it protects (SharedResource), *)
(* as implemented in src/optimised_peterson_algorithm.py.                  *)
(*                                                                         *)
(* Two threads run concurrently; thread t is bound to identity t.  Every   *)
(* read and every write of flag[0], flag[1], turn, value and access_log is *)
(* one atomic step (the interpreter executes them one at a time, in        *)
(* program order).  Updates of stats[i] are made by thread i alone and are *)
(* folded into the neighbouring step.                                      *)
(*                                                                         *)
(* Time is the wall clock read by time.time(): elapsed[t] is the number of *)
(* clock units since lock() stored start_time; the clock advances          *)
(* independently of the threads (Tick), so a thread may be delayed for any *)
(* length of time between two of its steps.                                *)
(*                                                                         *)
(* Two drivers are modelled:                                               *)
(*   Spec      both threads run run_test_case, i.e. a sequence of          *)
(*             SharedResource.increment calls;                             *)
(*   LockSpec  both threads call PetersonLock.lock / unlock directly.      *)
(* access_log entries keep process_id, operation and amount; the           *)
(* timestamp and duration fields (wall-clock floats) are left out.         *)
(***************************************************************************)
EXTENDS Integers, Sequences, FiniteSets, TLC

VARIABLES
    flag,        \* PetersonLock.flag: [0..1 -> BOOLEAN]
    turn,        \* PetersonLock.turn
    stats,       \* PetersonLock.stats: identity -> ProcessStats
    value,       \* SharedResource.value
    access_log,  \* SharedResource.access_log
    pc,          \* per thread: the statement it executes next
    pid,         \* per thread: process_id argument of the current (last) call
    amount,      \* per thread: amount argument of the current increment call
    current,     \* per thread: local `current` of increment
    elapsed,     \* per thread: time.time() - start_time of the current lock call
    result,      \* per thread: outcome of the current (last) call
    calls,       \* per thread: number of calls started (lock, or increment)
    issued,      \* per thread: the amounts passed to increment with a valid identity:
                 \* their sum, and whether all of them were numbers
    bypass,      \* per thread: successful lock returns of the peer since this thread wrote turn
    basic,       \* a PetersonLock of the basic variant (src/peterson-algorithm.py) and
                 \* the position of each thread in its lock / unlock, driven alongside
    entry        \* the direct lock call during which the other thread has stood still so
                 \* far: its caller, and flag and turn as they were at the call

vars == <<flag, turn, stats, value, access_log, pc, pid, amount, current,
          elapsed, result, calls, issued, bypass, entry, basic>>

lockVars == <<flag, turn, stats>>
resVars == <<value, access_log>>

----------------------------------------------------------------------------
(* Bounds of the model *)

\* Calls (lock, or increment) the two threads make in one run, in total.
MaxCalls == 3

\* PetersonLock._lock_timeout, in clock units (the attribute is configurable).
lock_timeout == 1

----------------------------------------------------------------------------
(* Inputs *)

Threads == {0, 1}

\* Identities outside [0, 1] that callers may pass.
InvalidIds == {-1, 2}

\* Amounts passed to increment: integers, and one non-numeric argument
\* (amount is not type-checked; `current + amount` raises TypeError for it).
NumericAmounts == {[num |-> TRUE, val |-> 1], [num |-> TRUE, val |-> 2]}
NonNumericAmount == [num |-> FALSE, val |-> 0]
NoAmount == [num |-> TRUE, val |-> 0]

\* Outcomes of a call.
PetersonErrors == {"InvalidProcessId", "LockAcquisitionFailed"}

----------------------------------------------------------------------------
(* Pure helpers *)

\* Mutant: an off-by-one range check.
ValidIdUpTo2(p) == p \in 0..2

ValidId(p) == p \in {0, 1}

Other(p) == 1 - p

ProcessStats == [entries |-> 0, wait_time |-> 0, fails |-> 0]

\* Mutant: the elapsed time is computed as start_time - time.time().
TimedOutReversed(t) == 0 - elapsed[t] > lock_timeout

TimedOut(t) == elapsed[t] > lock_timeout

\* A thread is between `start_time = time.time()` and the end of lock().
InLock(t) == pc[t] \in {"set_flag", "set_turn", "chk_flag", "chk_turn", "chk_time", "acquired"}

\* A thread is in the wait loop of lock().
Waiting(t) == pc[t] \in {"chk_flag", "chk_turn", "chk_time"}

\* No history (the caller is nobody): outside a direct call of lock, and once
\* the other thread has taken a step.
NoEntry == [who |-> -1]

\* History after a step of thread t other than the call of lock: the history
\* of the call of t is kept while t has not left the wait loop, and through a
\* timeout up to the next step of t; the call of the other thread is no
\* longer undisturbed.
EntryStep(t) ==
    IF /\ entry.who = t
       /\ pc[t] = "lock_entry" \/ InLock(t)
       /\ \/ InLock(t)' /\ pc'[t] # "acquired"
          \/ result'[t] = "LockAcquisitionFailed"
    THEN entry
    ELSE NoEntry

\* History after thread t has called lock: flag and turn as they are at the call.
EntryCall(t) == [who |-> t, flag |-> flag, turn |-> turn]

----------------------------------------------------------------------------
(* The basic variant, src/peterson-algorithm.py: PetersonLock without       *)
(* identity check, timeout and statistics.  basic.pc[t] is the statement     *)
(* thread t executes next: "idle" (outside lock), "set_flag", "set_turn",    *)
(* "chk_flag" and "chk_turn" (the two operands of the loop test), "cs" (lock *)
(* has returned).                                                            *)

\* PetersonLock.__init__ of the basic variant, no call in progress
BasicLock ==
    [flag |-> [i \in {0, 1} |-> FALSE], turn |-> 0, pc |-> [t \in Threads |-> "idle"]]

\* lock(t) of the basic variant is called
BasicCall(t) ==
    IF basic.pc[t] = "idle" THEN [basic EXCEPT !.pc[t] = "set_flag"] ELSE basic

\* The next statement of lock(t) of the basic variant, lines 12-20
BasicLockStep(t) ==
    LET other == 1 - t IN
    CASE basic.pc[t] = "set_flag" ->
           [basic EXCEPT !.flag[t] = TRUE, !.pc[t] = "set_turn"]
      [] basic.pc[t] = "set_turn" ->
           [basic EXCEPT !.turn = other, !.pc[t] = "chk_flag"]
      [] basic.pc[t] = "chk_flag" ->
           [basic EXCEPT !.pc[t] = IF basic.flag[other] THEN "chk_turn" ELSE "cs"]
      [] basic.pc[t] = "chk_turn" ->
           [basic EXCEPT !.pc[t] = IF basic.turn = other THEN "chk_flag" ELSE "cs"]
      [] OTHER -> basic

\* unlock(t) of the basic variant, lines 22-24
BasicUnlockStep(t) ==
    IF basic.pc[t] \in {"idle", "cs"}
    THEN [basic EXCEPT !.flag[t] = FALSE, !.pc[t] = "idle"]
    ELSE basic

\* The two locks are driven by the same calls under the same interleaving, up
\* to the first timeout of the enhanced variant: the basic variant has none.
Paired == stats[0].fails = 0 /\ stats[1].fails = 0

\* Thread t reads or writes flag or turn in lock(): so it does on the basic lock.
BasicAccess(t) == IF Paired /\ ValidId(pid[t]) THEN BasicLockStep(t) ELSE basic

\* Thread t calls unlock(p): so it does on the basic lock.
BasicUnlock(t, p) == IF Paired /\ p = t THEN BasicUnlockStep(t) ELSE basic

----------------------------------------------------------------------------
get_stats == [i \in {0, 1} |->
                [entries |-> stats[i].entries,
                 avg_wait_time |-> IF stats[i].entries > 0
                                   THEN <<stats[i].wait_time, stats[i].entries>>
                                   ELSE <<0, 1>>,
                 fails |-> stats[i].fails]]

----------------------------------------------------------------------------
(* Initial states *)

Init ==
    /\ flag = [i \in {0, 1} |-> FALSE]
    /\ turn = 0
    /\ stats = [i \in {0, 1} |-> ProcessStats]
    /\ value = 0
    /\ access_log = <<>>
    /\ pc = [t \in Threads |-> "idle"]
    /\ pid = [t \in Threads |-> t]
    /\ amount = [t \in Threads |-> NoAmount]
    /\ current = [t \in Threads |-> 0]
    /\ elapsed = [t \in Threads |-> 0]
    /\ result = [t \in Threads |-> "none"]
    /\ calls = [t \in Threads |-> 0]
    /\ issued = [t \in Threads |-> [sum |-> 0, numeric |-> TRUE]]
    /\ bypass = [t \in Threads |-> 0]
    /\ entry = NoEntry
    /\ basic = BasicLock

----------------------------------------------------------------------------
(* The wall clock *)

Tick ==
    /\ \E t \in Threads : InLock(t) /\ elapsed[t] <= lock_timeout
    /\ elapsed' = [t \in Threads |->
                     IF InLock(t) /\ elapsed[t] <= lock_timeout
                     THEN elapsed[t] + 1 ELSE elapsed[t]]
    /\ UNCHANGED <<lockVars, resVars, pc, pid, amount, current, result, calls, issued, bypass, entry, basic>>

----------------------------------------------------------------------------
(* PetersonLock.lock, statement by statement.  failPc / okPc is where the  *)
(* caller continues after an exception / a normal return.                  *)

\* lines 33-37: the identity check, other, start_time
LockEntry(t, failPc) ==
    /\ pc[t] = "lock_entry"
    /\ IF ValidId(pid[t])
       THEN /\ pc' = [pc EXCEPT ![t] = "set_flag"]
            /\ elapsed' = [elapsed EXCEPT ![t] = 0]
            /\ UNCHANGED result
       ELSE /\ pc' = [pc EXCEPT ![t] = failPc]
            /\ result' = [result EXCEPT ![t] = "InvalidProcessId"]
            /\ UNCHANGED elapsed
    /\ UNCHANGED <<lockVars, resVars, pid, amount, current, calls, issued, bypass>>
    /\ entry' = EntryStep(t)
    /\ UNCHANGED basic

\* line 40
SetFlag(t) ==
    /\ pc[t] = "set_flag"
    /\ flag' = [flag EXCEPT ![pid[t]] = TRUE]
    /\ pc' = [pc EXCEPT ![t] = "set_turn"]
    /\ UNCHANGED <<turn, stats, resVars, pid, amount, current, elapsed, result, calls, issued, bypass>>
    /\ entry' = EntryStep(t)
    /\ basic' = BasicAccess(t)

\* Mutant: the turn is kept instead of given away.
SetTurnSelf(t) ==
    /\ pc[t] = "set_turn"
    /\ turn' = pid[t]
    /\ pc' = [pc EXCEPT ![t] = "chk_flag"]
    /\ bypass' = [bypass EXCEPT ![t] = 0]
    /\ UNCHANGED <<flag, stats, resVars, pid, amount, current, elapsed, result, calls, issued>>
    /\ entry' = EntryStep(t)
    /\ basic' = BasicAccess(t)

\* line 41
SetTurn(t) ==
    /\ pc[t] = "set_turn"
    /\ turn' = Other(pid[t])
    /\ pc' = [pc EXCEPT ![t] = "chk_flag"]
    /\ bypass' = [bypass EXCEPT ![t] = 0]
    /\ UNCHANGED <<flag, stats, resVars, pid, amount, current, elapsed, result, calls, issued>>
    /\ entry' = EntryStep(t)
    /\ basic' = BasicAccess(t)

\* Mutant: the deadline is tested before the wait condition.
ChkFlagDeadlineFirst(t) ==
    /\ pc[t] = "chk_flag"
    /\ pc' = [pc EXCEPT ![t] = IF TimedOut(t) THEN "chk_time"
                               ELSE IF flag[Other(pid[t])] THEN "chk_turn" ELSE "acquired"]
    /\ UNCHANGED <<lockVars, resVars, pid, amount, current, elapsed, result, calls, issued, bypass>>
    /\ entry' = EntryStep(t)
    /\ basic' = BasicAccess(t)

\* line 44, left operand of `and`
ChkFlag(t) ==
    /\ pc[t] = "chk_flag"
    /\ pc' = [pc EXCEPT ![t] = IF flag[Other(pid[t])] THEN "chk_turn" ELSE "acquired"]
    /\ UNCHANGED <<lockVars, resVars, pid, amount, current, elapsed, result, calls, issued, bypass>>
    /\ entry' = EntryStep(t)
    /\ basic' = BasicAccess(t)

\* Mutant: the wait condition is flag[other] alone.
ChkTurnIgnored(t) ==
    /\ pc[t] = "chk_turn"
    /\ pc' = [pc EXCEPT ![t] = "chk_time"]
    /\ UNCHANGED <<lockVars, resVars, pid, amount, current, elapsed, result, calls, issued, bypass>>
    /\ entry' = EntryStep(t)
    /\ basic' = BasicAccess(t)

\* Mutant: the wait condition compares turn with the caller's own identity.
ChkTurnSelf(t) ==
    /\ pc[t] = "chk_turn"
    /\ pc' = [pc EXCEPT ![t] = IF turn = pid[t] THEN "chk_time" ELSE "acquired"]
    /\ UNCHANGED <<lockVars, resVars, pid, amount, current, elapsed, result, calls, issued, bypass>>
    /\ entry' = EntryStep(t)
    /\ basic' = BasicAccess(t)

\* line 44, right operand of `and`
ChkTurn(t) ==
    /\ pc[t] = "chk_turn"
    /\ pc' = [pc EXCEPT ![t] = IF turn = Other(pid[t]) THEN "chk_time" ELSE "acquired"]
    /\ UNCHANGED <<lockVars, resVars, pid, amount, current, elapsed, result, calls, issued, bypass>>
    /\ entry' = EntryStep(t)
    /\ basic' = BasicAccess(t)

\* lines 45, 49: the deadline has not passed; sleep and check again
LockSleep(t) ==
    /\ pc[t] = "chk_time"
    /\ ~TimedOut(t)
    /\ pc' = [pc EXCEPT ![t] = "chk_flag"]
    /\ UNCHANGED <<lockVars, resVars, pid, amount, current, elapsed, result, calls, issued, bypass>>
    /\ entry' = EntryStep(t)
    /\ UNCHANGED basic

\* Mutant: the timeout is not counted.
LockTimeoutNoCount(t, failPc) ==
    /\ pc[t] = "chk_time"
    /\ TimedOut(t)
    /\ flag' = [flag EXCEPT ![pid[t]] = FALSE]
    /\ result' = [result EXCEPT ![t] = "LockAcquisitionFailed"]
    /\ pc' = [pc EXCEPT ![t] = failPc]
    /\ elapsed' = [elapsed EXCEPT ![t] = 0]
    /\ bypass' = [bypass EXCEPT ![t] = 0]
    /\ UNCHANGED <<turn, stats, resVars, pid, amount, current, calls, issued>>
    /\ entry' = EntryStep(t)
    /\ UNCHANGED basic

\* Mutant: the timeout leaves the caller's flag set.
LockTimeoutKeepsFlag(t, failPc) ==
    /\ pc[t] = "chk_time"
    /\ TimedOut(t)
    /\ stats' = [stats EXCEPT ![pid[t]].fails = @ + 1]
    /\ result' = [result EXCEPT ![t] = "LockAcquisitionFailed"]
    /\ pc' = [pc EXCEPT ![t] = failPc]
    /\ elapsed' = [elapsed EXCEPT ![t] = 0]
    /\ bypass' = [bypass EXCEPT ![t] = 0]
    /\ UNCHANGED <<flag, turn, resVars, pid, amount, current, calls, issued>>
    /\ entry' = EntryStep(t)
    /\ UNCHANGED basic

\* Mutant: the timeout is counted but not raised; the caller goes on.
LockTimeoutProceeds(t, failPc) ==
    /\ pc[t] = "chk_time"
    /\ TimedOut(t)
    /\ flag' = [flag EXCEPT ![pid[t]] = FALSE]
    /\ stats' = [stats EXCEPT ![pid[t]].fails = @ + 1]
    /\ pc' = [pc EXCEPT ![t] = IF failPc = "idle" THEN "held" ELSE "cs_read"]
    /\ elapsed' = [elapsed EXCEPT ![t] = 0]
    /\ bypass' = [bypass EXCEPT ![t] = 0]
    /\ UNCHANGED <<turn, resVars, pid, amount, current, result, calls, issued>>
    /\ entry' = EntryStep(t)
    /\ UNCHANGED basic

\* Mutant: the timeout is counted for the other identity.
LockTimeoutBlamesOther(t, failPc) ==
    /\ pc[t] = "chk_time"
    /\ TimedOut(t)
    /\ flag' = [flag EXCEPT ![pid[t]] = FALSE]
    /\ stats' = [stats EXCEPT ![Other(pid[t])].fails = @ + 1]
    /\ result' = [result EXCEPT ![t] = "LockAcquisitionFailed"]
    /\ pc' = [pc EXCEPT ![t] = failPc]
    /\ elapsed' = [elapsed EXCEPT ![t] = 0]
    /\ bypass' = [bypass EXCEPT ![t] = 0]
    /\ UNCHANGED <<turn, resVars, pid, amount, current, calls, issued>>
    /\ entry' = EntryStep(t)
    /\ UNCHANGED basic

\* lines 45-48 and the handler, lines 55-58: the deadline has passed
LockTimeout(t, failPc) ==
    /\ pc[t] = "chk_time"
    /\ TimedOut(t)
    /\ flag' = [flag EXCEPT ![pid[t]] = FALSE]
    /\ stats' = [stats EXCEPT ![pid[t]].fails = @ + 1]
    /\ result' = [result EXCEPT ![t] = "LockAcquisitionFailed"]
    /\ pc' = [pc EXCEPT ![t] = failPc]
    /\ elapsed' = [elapsed EXCEPT ![t] = 0]
    /\ bypass' = [bypass EXCEPT ![t] = 0]
    /\ UNCHANGED <<turn, resVars, pid, amount, current, calls, issued>>
    /\ entry' = EntryStep(t)
    /\ UNCHANGED basic

\* Mutant: a successful entry is counted twice.
LockSuccessCountsTwice(t, okPc) ==
    /\ pc[t] = "acquired"
    /\ stats' = [stats EXCEPT ![pid[t]].entries = @ + 2,
                              ![pid[t]].wait_time = @ + elapsed[t]]
    /\ pc' = [pc EXCEPT ![t] = okPc]
    /\ result' = [result EXCEPT ![t] = IF okPc = "held" THEN "ok" ELSE @]
    /\ elapsed' = [elapsed EXCEPT ![t] = 0]
    /\ bypass' = [u \in Threads |->
                    IF u = t THEN 0
                    ELSE IF Waiting(u) THEN bypass[u] + 1 ELSE bypass[u]]
    /\ UNCHANGED <<flag, turn, resVars, pid, amount, current, calls, issued>>
    /\ entry' = EntryStep(t)
    /\ UNCHANGED basic

\* lines 51-53: the loop was left; statistics, return True
LockSuccess(t, okPc) ==
    /\ pc[t] = "acquired"
    /\ stats' = [stats EXCEPT ![pid[t]].entries = @ + 1,
                              ![pid[t]].wait_time = @ + elapsed[t]]
    /\ pc' = [pc EXCEPT ![t] = okPc]
    /\ result' = [result EXCEPT ![t] = IF okPc = "held" THEN "ok" ELSE @]
    /\ elapsed' = [elapsed EXCEPT ![t] = 0]
    /\ bypass' = [u \in Threads |->
                    IF u = t THEN 0
                    ELSE IF Waiting(u) THEN bypass[u] + 1 ELSE bypass[u]]
    /\ UNCHANGED <<flag, turn, resVars, pid, amount, current, calls, issued>>
    /\ entry' = EntryStep(t)
    /\ UNCHANGED basic

----------------------------------------------------------------------------
(* SharedResource.increment and run_test_case (driver of Spec) *)

\* run_test_case line 119 calling increment, lines 87-90
CallIncrement(t) ==
    /\ pc[t] = "idle"
    /\ calls[0] + calls[1] < MaxCalls
    /\ \E p \in {t} \cup InvalidIds, a \in NumericAmounts \cup {NonNumericAmount} :
         /\ pid' = [pid EXCEPT ![t] = p]
         /\ amount' = [amount EXCEPT ![t] = a]
         /\ issued' = [issued EXCEPT ![t] =
                         IF ~ValidId(p) THEN @
                         ELSE IF a.num THEN [@ EXCEPT !.sum = @ + a.val]
                         ELSE [@ EXCEPT !.numeric = FALSE]]
    /\ pc' = [pc EXCEPT ![t] = "lock_entry"]
    /\ result' = [result EXCEPT ![t] = "none"]
    /\ calls' = [calls EXCEPT ![t] = @ + 1]
    /\ UNCHANGED <<lockVars, resVars, current, elapsed, bypass, entry, basic>>

\* line 93
CsRead(t) ==
    /\ pc[t] = "cs_read"
    /\ current' = [current EXCEPT ![t] = value]
    /\ pc' = [pc EXCEPT ![t] = "cs_write"]
    /\ UNCHANGED <<lockVars, resVars, pid, amount, elapsed, result, calls, issued, bypass, entry, basic>>

\* lines 94-95
CsWrite(t) ==
    /\ pc[t] = "cs_write"
    /\ IF amount[t].num
       THEN /\ value' = current[t] + amount[t].val
            /\ pc' = [pc EXCEPT ![t] = "cs_log"]
            /\ UNCHANGED result
       ELSE /\ result' = [result EXCEPT ![t] = "TypeError"]
            /\ pc' = [pc EXCEPT ![t] = "inc_finally"]
            /\ UNCHANGED value
    /\ UNCHANGED <<lockVars, access_log, pid, amount, current, elapsed, calls, issued, bypass, entry, basic>>

\* Mutant: the log entry records the new counter value instead of the amount.
CsLogRecordsValue(t) ==
    /\ pc[t] = "cs_log"
    /\ access_log' = Append(access_log,
                            [process_id |-> pid[t], operation |-> "increment",
                             amount |-> value])
    /\ pc' = [pc EXCEPT ![t] = "inc_finally"]
    /\ UNCHANGED <<lockVars, value, pid, amount, current, elapsed, result, calls, issued, bypass, entry, basic>>

\* lines 98-106
CsLog(t) ==
    /\ pc[t] = "cs_log"
    /\ access_log' = Append(access_log,
                            [process_id |-> pid[t], operation |-> "increment",
                             amount |-> amount[t].val])
    /\ pc' = [pc EXCEPT ![t] = "inc_finally"]
    /\ UNCHANGED <<lockVars, value, pid, amount, current, elapsed, result, calls, issued, bypass, entry, basic>>

\* Mutant: the handler of increment swallows the lock error.
IncFinallySwallows(t) ==
    /\ pc[t] = "inc_finally"
    /\ IF ValidId(pid[t])
       THEN /\ flag' = [flag EXCEPT ![pid[t]] = FALSE]
            /\ result' = [result EXCEPT ![t] = "ok"]
       ELSE /\ result' = [result EXCEPT ![t] = "InvalidProcessId"]
            /\ UNCHANGED flag
    /\ pc' = [pc EXCEPT ![t] = "idle"]
    /\ amount' = [amount EXCEPT ![t] = NoAmount]
    /\ current' = [current EXCEPT ![t] = 0]
    /\ UNCHANGED <<turn, stats, resVars, pid, elapsed, calls, issued, bypass, entry, basic>>

\* Mutant: unlock runs on the normal path only, not in a finally clause.
IncFinallyOnSuccessOnly(t) ==
    /\ pc[t] = "inc_finally"
    /\ IF ValidId(pid[t]) /\ result[t] = "none"
       THEN /\ flag' = [flag EXCEPT ![pid[t]] = FALSE]
            /\ result' = [result EXCEPT ![t] = "ok"]
       ELSE /\ UNCHANGED <<flag, result>>
    /\ pc' = [pc EXCEPT ![t] = IF result'[t] \in PetersonErrors \cup {"ok"} THEN "idle" ELSE "done"]
    /\ amount' = [amount EXCEPT ![t] = NoAmount]
    /\ current' = [current EXCEPT ![t] = 0]
    /\ UNCHANGED <<turn, stats, resVars, pid, elapsed, calls, issued, bypass, entry, basic>>

\* lines 108-112 (except, finally: unlock, lines 60-68) and the return to
\* run_test_case, lines 120-122, which catches PetersonError only
IncFinally(t) ==
    /\ pc[t] = "inc_finally"
    /\ IF ValidId(pid[t])
       THEN /\ flag' = [flag EXCEPT ![pid[t]] = FALSE]
            /\ result' = [result EXCEPT ![t] = IF @ = "none" THEN "ok" ELSE @]
       ELSE /\ result' = [result EXCEPT ![t] = "InvalidProcessId"]
            /\ UNCHANGED flag
    /\ pc' = [pc EXCEPT ![t] = IF result'[t] \in PetersonErrors \cup {"ok"} THEN "idle" ELSE "done"]
    /\ amount' = [amount EXCEPT ![t] = NoAmount]
    /\ current' = [current EXCEPT ![t] = 0]
    /\ UNCHANGED <<turn, stats, resVars, pid, elapsed, calls, issued, bypass, entry, basic>>

\* run_test_case line 117: the operations are exhausted
Finish(t) ==
    /\ pc[t] = "idle"
    /\ pc' = [pc EXCEPT ![t] = "done"]
    /\ UNCHANGED <<lockVars, resVars, pid, amount, current, elapsed, result, calls, issued, bypass, entry, basic>>

Worker(t) ==
    \/ CallIncrement(t)
    \/ LockEntry(t, "inc_finally")
    \/ SetFlag(t)
    \/ SetTurn(t)
    \/ ChkFlag(t)
    \/ ChkTurn(t)
    \/ LockSleep(t)
    \/ LockTimeout(t, "inc_finally")
    \/ LockSuccess(t, "cs_read")
    \/ CsRead(t)
    \/ CsWrite(t)
    \/ CsLog(t)
    \/ IncFinally(t)
    \/ Finish(t)

Next == Tick \/ \E t \in Threads : Worker(t)

Spec == Init /\ [][Next]_vars

----------------------------------------------------------------------------
(* Direct callers of PetersonLock.lock / unlock (driver of LockSpec) *)

\* a call of lock(p)
CallLock(t) ==
    /\ pc[t] = "idle"
    /\ calls[0] + calls[1] < MaxCalls
    /\ \E p \in {t} \cup InvalidIds : pid' = [pid EXCEPT ![t] = p]
    /\ pc' = [pc EXCEPT ![t] = "lock_entry"]
    /\ result' = [result EXCEPT ![t] = "none"]
    /\ calls' = [calls EXCEPT ![t] = @ + 1]
    /\ UNCHANGED <<lockVars, resVars, amount, current, elapsed, issued, bypass>>
    /\ entry' = EntryCall(t)
    /\ UNCHANGED basic

\* Mutant: unlock leaves the flag set.
UnlockKeepsFlag(t, p) ==
    /\ pc[t] \in {"idle", "held"}
    /\ pid' = [pid EXCEPT ![t] = p]
    /\ IF ValidId(p)
       THEN /\ result' = [result EXCEPT ![t] = "ok"]
            /\ pc' = [pc EXCEPT ![t] = "idle"]
            /\ UNCHANGED flag
       ELSE /\ result' = [result EXCEPT ![t] = "InvalidProcessId"]
            /\ UNCHANGED <<flag, pc>>
    /\ UNCHANGED <<turn, stats, resVars, amount, current, elapsed, calls, issued, bypass>>
    /\ entry' = EntryStep(t)
    /\ basic' = BasicUnlock(t, p)

\* Mutant: unlock also hands the turn to the caller.
UnlockTakesTurn(t, p) ==
    /\ pc[t] \in {"idle", "held"}
    /\ pid' = [pid EXCEPT ![t] = p]
    /\ IF ValidId(p)
       THEN /\ flag' = [flag EXCEPT ![p] = FALSE]
            /\ turn' = p
            /\ result' = [result EXCEPT ![t] = "ok"]
            /\ pc' = [pc EXCEPT ![t] = "idle"]
       ELSE /\ result' = [result EXCEPT ![t] = "InvalidProcessId"]
            /\ UNCHANGED <<flag, turn, pc>>
    /\ UNCHANGED <<stats, resVars, amount, current, elapsed, calls, issued, bypass>>
    /\ entry' = EntryStep(t)
    /\ basic' = BasicUnlock(t, p)

\* PetersonLock.unlock(p), lines 60-68, called while holding the lock or not
Unlock(t, p) ==
    /\ pc[t] \in {"idle", "held"}
    /\ pid' = [pid EXCEPT ![t] = p]
    /\ IF ValidId(p)
       THEN /\ flag' = [flag EXCEPT ![p] = FALSE]
            /\ result' = [result EXCEPT ![t] = "ok"]
            /\ pc' = [pc EXCEPT ![t] = "idle"]
       ELSE /\ result' = [result EXCEPT ![t] = "InvalidProcessId"]
            /\ UNCHANGED <<flag, pc>>
    /\ UNCHANGED <<turn, stats, resVars, amount, current, elapsed, calls, issued, bypass>>
    /\ entry' = EntryStep(t)
    /\ basic' = BasicUnlock(t, p)

LockBody(t) ==
    \/ LockEntry(t, "idle")
    \/ SetFlag(t)
    \/ SetTurn(t)
    \/ ChkFlag(t)
    \/ ChkTurn(t)
    \/ LockSleep(t)
    \/ LockTimeout(t, "idle")
    \/ LockSuccess(t, "held")

Client(t) ==
    \/ CallLock(t)
    \/ LockBody(t)
    \/ \E p \in {t} \cup InvalidIds : Unlock(t, p)

LockNext == Tick \/ \E t \in Threads : Client(t)

LockSpec == Init /\ [][LockNext]_vars

\* The matching unlock of a thread that holds the lock.
Release(t) == pc[t] = "held" /\ Unlock(t, t)

----------------------------------------------------------------------------
(* The enhanced and the basic lock side by side (driver of PairSpec): each  *)
(* thread makes the same calls, with its own identity, on both.              *)

\* a call of lock(t) on both locks
PairCallLock(t) ==
    /\ pc[t] = "idle"
    /\ calls[0] + calls[1] < MaxCalls
    /\ pid' = [pid EXCEPT ![t] = t]
    /\ pc' = [pc EXCEPT ![t] = "lock_entry"]
    /\ result' = [result EXCEPT ![t] = "none"]
    /\ calls' = [calls EXCEPT ![t] = @ + 1]
    /\ basic' = IF Paired THEN BasicCall(t) ELSE basic
    /\ UNCHANGED <<lockVars, resVars, amount, current, elapsed, issued, bypass, entry>>

PairClient(t) ==
    \/ PairCallLock(t)
    \/ LockBody(t)
    \/ Unlock(t, t)

PairNext == Tick \/ \E t \in Threads : PairClient(t)

PairSpec == Init /\ [][PairNext]_vars

\* Fair scheduling of the code of lock() (which drives both locks); callers
\* need not unlock and the clock need not advance.
FairPairSpec == PairSpec /\ \A t \in Threads : WF_vars(LockBody(t))

\* Fair scheduling of the code of lock(), and a clock that advances; a
\* caller is free to hold the lock for ever.
FairLockSpec ==
    /\ LockSpec
    /\ WF_vars(Tick)
    /\ \A t \in Threads : WF_vars(LockBody(t))

\* Fair scheduling of the code of lock(), and every holder unlocks; the
\* clock is free not to reach any deadline.
FairReleaseSpec ==
    /\ LockSpec
    /\ \A t \in Threads : WF_vars(LockBody(t)) /\ WF_vars(Release(t))

----------------------------------------------------------------------------
(* Properties *)

\* Thread t is between a successful lock(t) return and its matching unlock(t).
\* (In increment the finally clause is reached with a pending lock error when
\* the lock was not acquired.)
Holds(t) ==
    \/ pc[t] \in {"held", "cs_read", "cs_write", "cs_log"}
    \/ pc[t] = "inc_finally" /\ result[t] \notin PetersonErrors

\* Thread t is executing lock(), from the call to the return or the raise.
InLockCall(t) == pc[t] = "lock_entry" \/ InLock(t)

\* C1. Mutual exclusion: with every read and write of flag and turn a step of
\* its own, and with lock calls that time out and are retried, the two
\* identities are never both between a successful lock and the matching unlock.
C1_MutualExclusion == ~(Holds(0) /\ Holds(1))

\* Identity 0 holds the lock while identity 1, which has timed out before and
\* is trying again, is in the wait loop.
C1_Witness ==
    /\ pc[0] = "held"
    /\ Waiting(1)
    /\ stats[1].fails >= 1

\* C3. Invalid identity rejection: lock(p) and unlock(p) with p outside {0,1}
\* end in the error outcome and leave flag, turn and the statistics as they
\* were, whatever the state they are called from.
C3_InvalidIdRejected ==
    [][\A t \in Threads :
         \* the call of lock(p) and its body
         /\ (pc'[t] = "lock_entry" /\ pc[t] # "lock_entry" /\ pid'[t] \notin {0, 1})
               => UNCHANGED lockVars
         /\ (pc[t] = "lock_entry" /\ pc'[t] # "lock_entry" /\ pid[t] \notin {0, 1})
               => /\ UNCHANGED lockVars
                  /\ result'[t] = "InvalidProcessId"
                  /\ pc'[t] = "idle"
         \* unlock(p)
         /\ (/\ pc[t] \in {"idle", "held"}
             /\ pc'[t] # "lock_entry"
             /\ pid'[t] \notin {0, 1}
             /\ <<pc[t], pid[t], result[t]>> # <<pc'[t], pid'[t], result'[t]>>)
               => /\ UNCHANGED lockVars
                  /\ result'[t] = "InvalidProcessId"
                  /\ pc'[t] = pc[t]
      ]_vars

\* lock(2) was rejected while the peer was holding the lock, and unlock(-1)
\* was rejected while the caller itself was holding it.
C3_Witness ==
    /\ pc[0] = "idle" /\ pid[0] = 2 /\ result[0] = "InvalidProcessId"
    /\ pc[1] = "held" /\ pid[1] = -1 /\ result[1] = "InvalidProcessId"
    /\ flag[1] /\ stats[1].entries = 1

\* The step in which lock(t) gives up: the raise of line 48 through the
\* handler of lines 55-58.
TimeoutStep(t) == pc[t] = "chk_time" /\ pc'[t] \notin {"chk_time", "chk_flag"}

\* C5. Timeout outcome: when lock(i) ends with a timeout, flag[i] is false when
\* the error reaches the caller, the call has added exactly 1 to fails[i] and
\* nothing to entries[i].
C5_TimeoutOutcome ==
    [][\A t \in Threads :
         /\ TimeoutStep(t)
               => /\ result'[t] = "LockAcquisitionFailed"
                  /\ ~flag'[t]
                  /\ stats'[t].fails = stats[t].fails + 1
                  /\ stats'[t].entries = stats[t].entries
         \* nothing else the call does before touches the statistics of t
         /\ (pc[t] \in {"lock_entry", "set_flag", "set_turn", "chk_flag", "chk_turn", "chk_time"}
             /\ ~TimeoutStep(t))
               => stats'[t] = stats[t]
      ]_vars

\* A lock call of identity 1 has ended with a timeout.
C5_Witness ==
    /\ pc[1] = "idle"
    /\ result[1] = "LockAcquisitionFailed"
    /\ stats[1] = [entries |-> 0, wait_time |-> 0, fails |-> 1]
    /\ ~flag[1]

\* Identity a has timed out and has made no call since.
TimedOutIdle(a) == pc[a] = "idle" /\ result[a] = "LockAcquisitionFailed"

\* C6. No deadlock after a timeout: while identity a, whose lock call timed
\* out, is not attempting again, every check of the wait condition by the
\* other identity leaves the loop, and the call returns success.
C6_NoDeadlockAfterTimeout ==
    [][\A a \in Threads :
         LET b == Other(a) IN
         (TimedOutIdle(a) /\ pc[b] \in {"chk_flag", "acquired"} /\ pc'[b] # pc[b])
            => \/ pc[b] = "chk_flag" /\ pc'[b] = "acquired"
               \/ pc[b] = "acquired" /\ pc'[b] = "held" /\ result'[b] = "ok"
      ]_vars

\* Identity 0 timed out; identity 1 then called lock and holds it.
C6_Witness ==
    /\ TimedOutIdle(0)
    /\ pc[1] = "held"
    /\ calls[1] = 2

\* C8. Bounded bypass: once identity i has written flag[i] and turn and waits
\* (without timing out), the other identity completes at most one further
\* successful lock before i is admitted.
C8_BoundedBypass == \A i \in Threads : bypass[i] <= 1

\* Identity 0 waits and has been overtaken once; identity 1 is back in lock().
C8_Witness ==
    /\ Waiting(0)
    /\ bypass[0] = 1
    /\ Waiting(1)

\* Both workers have finished (run_test_case returned, or the thread died of
\* an exception run_test_case does not catch).
Done == \A t \in Threads : pc[t] = "done"

\* Every amount the two identities passed to increment was a number.
NumericRun == \A t \in Threads : issued[t].numeric

LockFailsStep(t) ==
    \/ pc[t] = "lock_entry" /\ pc'[t] # "lock_entry" /\ pid[t] \notin {0, 1}
    \/ TimeoutStep(t)

\* C4. When the lock call inside increment fails (invalid identity, timeout),
\* increment ends in an error outcome that reaches the caller, and the call
\* neither changes the counter nor appends to access_log.
C4_FailedIncrement ==
    [][\A t \in Threads :
         \* the lock call: no step of it touches the counter or the log, and
         \* its failure leaves increment with the error pending
         /\ (InLockCall(t) /\ pc'[t] # pc[t]) => UNCHANGED resVars
         /\ LockFailsStep(t)
               => pc'[t] = "inc_finally" /\ result'[t] \in PetersonErrors
         \* the rest of the failed call: the error is handed to the caller
         /\ (pc[t] = "inc_finally" /\ result[t] \in PetersonErrors /\ pc'[t] # pc[t])
               => /\ UNCHANGED resVars
                  /\ result'[t] \in PetersonErrors
                  /\ pc'[t] = "idle"
      ]_vars

\* increment(0) failed on a timeout while identity 1 was inside its critical
\* section, after the counter had been written once.
C4_Witness ==
    /\ pc[0] = "idle"
    /\ result[0] = "LockAcquisitionFailed"
    /\ pc[1] = "cs_write"
    /\ value = 2
    /\ Len(access_log) = 1

\* C10. Guaranteed release: an identity that is not inside increment (it has
\* returned, on whatever path, or has not called yet) has its flag cleared.
C10_GuaranteedRelease == \A t \in Threads : pc[t] \in {"idle", "done"} => ~flag[t]

\* increment(1) acquired the lock, its critical-section body failed, and the
\* call has returned.
C10_Witness ==
    /\ pc[1] = "done"
    /\ result[1] = "TypeError"
    /\ stats[1].entries = 1
    /\ ~flag[1]

\* Identity i is in the wait loop of lock(i) while the other identity holds
\* the lock.
Blocked(i) == Waiting(i) /\ pc[Other(i)] = "held"

\* C7. Bounded acquisition: while the other identity keeps the lock without
\* unlocking, lock(i) does not succeed; it ends with a timeout failure that
\* adds exactly 1 to fails[i].  And every lock call returns or raises.
C7_BoundedAcquisition ==
    /\ [][\A i \in Threads :
            (Blocked(i) /\ pc'[Other(i)] = "held")
               => \/ Blocked(i)' /\ stats'[i] = stats[i]
                  \/ /\ TimeoutStep(i)
                     /\ result'[i] = "LockAcquisitionFailed"
                     /\ stats'[i].fails = stats[i].fails + 1
         ]_vars
    /\ \A i \in Threads : Blocked(i) ~> (pc[Other(i)] # "held" \/ TimedOutIdle(i))
    /\ \A i \in Threads : InLockCall(i) ~> ~InLockCall(i)

\* Identity 1 still holds the lock and lock(0) has ended with a timeout.
C7_Witness ==
    /\ pc[1] = "held"
    /\ flag[1]
    /\ TimedOutIdle(0)
    /\ stats[0].fails = 1
    /\ stats[0].entries = 0

\* Some lock call has timed out.
AnyTimeout == \E j \in Threads : stats[j].fails > 0

OnlyThread(t) ==
    /\ pc'[Other(t)] = pc[Other(t)]
    /\ pid'[Other(t)] = pid[Other(t)]
    /\ result'[Other(t)] = result[Other(t)]
    /\ elapsed' = elapsed

\* The step changes the position, the argument or the outcome of thread t.
Acts(t) == <<pc[t], pid[t], result[t]>>' # <<pc[t], pid[t], result[t]>>

\* unlock(i) has returned and thread t has made no call since.
Unlocked(t) == pc[t] = "idle" /\ result[t] = "ok" /\ pid[t] \in {0, 1}

\* The step is a call unlock(i) by thread t, i in {0, 1} (a repeated unlock
\* changes neither position nor outcome).
UnlockStep(t) ==
    /\ OnlyThread(t)
    /\ Acts(t) \/ Unlocked(t)
    /\ pc[t] \in {"idle", "held"}
    /\ pc'[t] # "lock_entry"
    /\ pid'[t] \in {0, 1}

\* C11. Release is permissive and idempotent: unlock(i), i in {0,1}, can be
\* called and returns normally whether or not i holds the lock; it makes
\* flag[i] false and leaves flag[other], turn and the statistics as they were;
\* a second unlock(i) right after the first changes nothing of the program's
\* state.
C11_PermissiveIdempotentUnlock ==
    /\ [](\A t \in Threads : pc[t] \in {"idle", "held"} => ENABLED Unlock(t, t))
    /\ [][\A t \in Threads :
            /\ UnlockStep(t)
                  => /\ result'[t] = "ok"
                     /\ pc'[t] = "idle"
                     /\ flag' = [flag EXCEPT ![pid'[t]] = FALSE]
                     /\ turn' = turn
                     /\ stats' = stats
            /\ (Unlocked(t) /\ UnlockStep(t) /\ pid'[t] = pid[t])
                  => UNCHANGED <<lockVars, resVars, pc, pid, amount, current, elapsed, result>>
         ]_vars

\* unlock(1) has returned although identity 1 never called lock, while
\* identity 0 holds the lock.
C11_Witness ==
    /\ Unlocked(1)
    /\ calls[1] = 0
    /\ stats[1].entries = 0
    /\ ~flag[1]
    /\ pc[0] = "held"
    /\ flag[0]
    /\ turn = 1

\* The step in which lock(t) returns True (lines 51-53).
SuccessStep(t) == pc[t] = "acquired" /\ pc'[t] # "acquired"

\* C12. Statistics consistency: for each identity i, entries[i] + fails[i] never
\* exceeds the number of lock calls i has started; the step that ends a call
\* adds exactly 1 to exactly one of entries[i], fails[i], and no other step
\* changes either; get_stats reports average wait time 0 while entries[i] = 0.
C12_StatsConsistency ==
    /\ [](\A i \in Threads :
            /\ stats[i].entries + stats[i].fails <= calls[i]
            /\ stats[i].entries = 0 => get_stats[i].avg_wait_time[1] = 0)
    /\ [][\A i \in Threads :
            LET e == stats'[i].entries - stats[i].entries
                f == stats'[i].fails - stats[i].fails
            IN  /\ SuccessStep(i) => e = 1 /\ f = 0
                /\ TimeoutStep(i) => e = 0 /\ f = 1
                /\ ~(SuccessStep(i) \/ TimeoutStep(i)) => e = 0 /\ f = 0
         ]_vars

\* Identity 0 has made two calls, one admitted and one timed out; identity 1
\* has made one call, which timed out, and get_stats reports 0 for it.
C12_Witness ==
    /\ calls[0] = 2 /\ stats[0].entries = 1 /\ stats[0].fails = 1
    /\ calls[1] = 1 /\ stats[1].entries = 0 /\ stats[1].fails = 1
    /\ get_stats[1].avg_wait_time = <<0, 1>>
    /\ get_stats[0].avg_wait_time[2] = 1

\* The sum of the amounts recorded in a log.
RECURSIVE SumAmounts(_)
SumAmounts(log) ==
    IF log = <<>> THEN 0 ELSE log[Len(log)].amount + SumAmounts(SubSeq(log, 1, Len(log) - 1))

\* The amount of a critical section that has written value and not yet logged.
Pending(t) == IF pc[t] = "cs_log" THEN amount[t].val ELSE 0

\* C13. Lock-protected mutation: a step that writes value or appends to
\* access_log is made by an identity that holds the lock (its flag is set and
\* the other identity does not hold it); entries are appended at the end of the
\* log, each by the critical section that made the last write of value, so the
\* counter is at every moment the sum of the logged amounts, in log order,
\* plus the amount of the critical section in progress.
C13_LockProtectedMutation ==
    /\ [](value = SumAmounts(access_log) + Pending(0) + Pending(1))
    /\ [][resVars' # resVars =>
            \E t \in Threads :
               /\ OnlyThread(t)
               /\ pc[t] \in {"cs_write", "cs_log"}
               /\ pid[t] = t
               /\ flag[t]
               /\ Holds(t) /\ ~Holds(Other(t))
               /\ access_log' # access_log =>
                     /\ value' = value
                     /\ access_log' = Append(access_log,
                                             [process_id |-> t, operation |-> "increment",
                                              amount |-> value - SumAmounts(access_log)])
         ]_vars

\* Identity 1 and then identity 0 have completed a critical section; identity
\* 1 is in its second one and has written value but not yet logged.
C13_Witness ==
    /\ Len(access_log) = 2
    /\ access_log[1].process_id = 1 /\ access_log[1].amount = 2
    /\ access_log[2].process_id = 0 /\ access_log[2].amount = 1
    /\ pc[1] = "cs_log"
    /\ amount[1].val = 2
    /\ value = 5

\* The lock call of identity i has timed out, i has done nothing since, and
\* the other identity has taken no step since the call was made.
QuietTimeout(i) == TimedOutIdle(i) /\ entry.who = i

\* C14 as stated. Timeout rollback of shared state: when the other identity
\* takes no step during a lock(i) call that times out, flag[0], flag[1] and
\* turn are after the call what they were before it.
C14_TimeoutRestoresFlagAndTurn ==
    \A i \in Threads :
       QuietTimeout(i) => flag = entry.flag /\ turn = entry.turn

\* C14 as amended: the flags are after the call what they were before it;
\* turn is not restored, it keeps the value other(i) the call wrote.
C14_TimeoutRestoresFlags ==
    \A i \in Threads :
       QuietTimeout(i) => flag = entry.flag /\ turn = Other(i)

\* lock(0), called with turn = 0 while identity 1 held the lock, has timed
\* out, and identity 1 has taken no step meanwhile.
C14_Witness ==
    /\ QuietTimeout(0)
    /\ entry.turn = 0
    /\ entry.flag[1] /\ ~entry.flag[0]
    /\ pc[1] = "held"
    /\ stats[0].fails = 1

\* Both identities have set their flag and written turn, and neither has
\* left the wait loop yet.
BothContending == \A t \in Threads : Waiting(t)

\* Identity w is the one that waits and identity p the one that proceeds: no
\* step takes w out of the wait loop, and the test of turn by p takes p out
\* of it.
WaitsAndProceeds(w, p) ==
    /\ pc'[w] # "acquired"
    /\ (pc[p] = "chk_turn" /\ pc'[p] # "chk_turn") => pc'[p] = "acquired"

\* C15 as stated. Meaning of turn: while both identities are in the entry
\* protocol past their write of turn, the identity whose number equals turn is
\* the one that waits and the other is the one that proceeds.
C15_TurnNamesTheWaiter ==
    [][BothContending => WaitsAndProceeds(turn, Other(turn))]_vars

\* C15 as amended: the roles are the other way round.  The identity whose
\* number equals turn is the one that proceeds, the other one waits.
C15_TurnNamesTheAdmitted ==
    [][BothContending => WaitsAndProceeds(Other(turn), turn)]_vars

\* Both identities are in the wait loop; identity 1, which turn names, is
\* about to test turn, and identity 0 has found the wait condition true.
C15_Witness ==
    /\ BothContending
    /\ turn = 1
    /\ pc[1] = "chk_turn"
    /\ pc[0] = "chk_time"
    /\ flag[0] /\ flag[1]

\* C16. Statistics frame: no step of identity i changes the statistics of the
\* other identity; the step in which lock(i) returns success adds exactly 1 to
\* entries[i] (and the time waited to wait_time[i]) and leaves fails[i]; no
\* other step of a successful call changes stats[i]; unlock changes no
\* statistics.
C16_StatsFrame ==
    [][\A i \in Threads :
         /\ Acts(i) => stats'[Other(i)] = stats[Other(i)]
         /\ SuccessStep(i)
               => stats'[i] = [entries |-> stats[i].entries + 1,
                               wait_time |-> stats[i].wait_time + elapsed[i],
                               fails |-> stats[i].fails]
         /\ (Acts(i) /\ InLockCall(i) /\ ~SuccessStep(i) /\ ~TimeoutStep(i))
               => stats'[i] = stats[i]
         /\ (Acts(i) /\ ~InLockCall(i)) => stats' = stats
      ]_vars

\* Identity 0 has been admitted after one clock unit and has unlocked; the
\* lock call of identity 1 has timed out meanwhile.
C16_Witness ==
    /\ Unlocked(0)
    /\ stats[0] = [entries |-> 1, wait_time |-> 1, fails |-> 0]
    /\ stats[1] = [entries |-> 0, wait_time |-> 0, fails |-> 1]

\* Neither identity is inside increment.
Outside == \A t \in Threads : pc[t] \in {"idle", "done"}

\* C17. Counter/log/statistics agreement: whenever neither identity is inside
\* increment, the counter equals the sum of the amounts in access_log and, no
\* critical-section body having failed, the log has entries[0] + entries[1]
\* entries; the increments that timed out are in neither, so the log and the
\* timeouts together never outnumber the calls.
C17_CounterLogStatsAgree ==
    Outside =>
       /\ value = SumAmounts(access_log)
       /\ NumericRun => Len(access_log) = stats[0].entries + stats[1].entries
       /\ NumericRun =>
             Len(access_log) + stats[0].fails + stats[1].fails <= calls[0] + calls[1]

\* Three increments have been made: one was logged, one timed out and one
\* was rejected.
C17_Witness ==
    /\ Outside
    /\ NumericRun
    /\ calls[0] + calls[1] = 3
    /\ Len(access_log) = 1
    /\ value = 2
    /\ stats[0].fails + stats[1].fails = 1
    /\ \E t \in Threads : result[t] = "InvalidProcessId"

\* Thread t gives up its lock call in this step, wherever it is in the call.
GivesUp(t) ==
    \/ stats'[t].fails # stats[t].fails
    \/ result'[t] = "LockAcquisitionFailed" /\ result[t] # "LockAcquisitionFailed"

\* C18. Timeout only under observed contention: lock(i) gives up only from the
\* deadline test, which it reaches only from a test of turn that read other,
\* which it reaches only from a test of flag[other] that read true; a test
\* that reads flag[other] false leaves the loop, and the call then returns
\* success, whatever turn is and however much time has elapsed.
C18_TimeoutOnlyUnderContention ==
    [][\A i \in Threads :
         /\ GivesUp(i) => pc[i] = "chk_time"
         /\ (pc'[i] = "chk_time" /\ pc[i] # "chk_time")
               => pc[i] = "chk_turn" /\ turn = Other(i)
         /\ (pc'[i] = "chk_turn" /\ pc[i] # "chk_turn")
               => pc[i] = "chk_flag" /\ flag[Other(i)]
         /\ (pc[i] = "chk_flag" /\ pc'[i] # "chk_flag" /\ ~flag[Other(i)])
               => pc'[i] = "acquired" /\ ~GivesUp(i)
         /\ (pc[i] = "acquired" /\ pc'[i] # "acquired")
               => /\ pc'[i] = "held" /\ result'[i] = "ok"
                  /\ stats'[i].entries = stats[i].entries + 1
                  /\ ~GivesUp(i)
      ]_vars

\* lock(0) has returned success after more time than the timeout allows,
\* with turn = 1: identity 1 had never set its flag.
C18_Witness ==
    /\ pc[0] = "held"
    /\ stats[0] = [entries |-> 1, wait_time |-> lock_timeout + 1, fails |-> 0]
    /\ turn = 1
    /\ calls[1] = 0
    /\ ~flag[1]

\* The wait condition of identity i, as the shared variables are now.
WaitCondition(i) == flag[Other(i)] /\ turn = Other(i)

\* The same for the basic variant.
BasicWaitCondition(i) == basic.flag[1 - i] /\ basic.turn = 1 - i

\* Both identities are in the wait loop of the basic variant.
BasicBothContending == \A t \in Threads : basic.pc[t] \in {"chk_flag", "chk_turn"}

\* C19. Deadlock freedom without the timeout: in the basic variant, and in the
\* enhanced variant as long as no timeout fires, the two identities are never
\* both in the wait loop with both wait conditions true, and whenever both are
\* in the wait loop one of them leaves it (the code of lock being scheduled
\* fairly).
C19_DeadlockFreedom ==
    /\ [](BothContending => \E i \in Threads : ~WaitCondition(i))
    /\ [](BasicBothContending => \E i \in Threads : ~BasicWaitCondition(i))
    /\ BothContending ~> ((\E i \in Threads : pc[i] \in {"acquired", "held"}) \/ AnyTimeout)
    /\ BasicBothContending ~> ((\E i \in Threads : basic.pc[i] = "cs") \/ AnyTimeout)

\* Both identities were in the wait loop of either variant, each having found
\* its wait condition true at some moment; identity 1 has left the loop, in
\* both variants, and no timeout has fired.
C19_Witness ==
    /\ pc[0] = "chk_time" /\ pc[1] = "acquired"
    /\ basic.pc[0] = "chk_flag" /\ basic.pc[1] = "cs"
    /\ elapsed[1] > 0
    /\ ~AnyTimeout

\* The position in the basic variant that corresponds to a position in the
\* enhanced one (the identity check and the deadline test have no counterpart).
BasicPosition(p) ==
    CASE p = "idle" -> "idle"
      [] p \in {"lock_entry", "set_flag"} -> "set_flag"
      [] p = "set_turn" -> "set_turn"
      [] p \in {"chk_flag", "chk_time"} -> "chk_flag"
      [] p = "chk_turn" -> "chk_turn"
      [] p \in {"acquired", "held"} -> "cs"

\* C20. Variant equivalence: driven by the same lock / unlock calls of
\* identities 0 and 1 under the same interleaving, and as long as no timeout
\* fires, the enhanced and the basic lock have the same flag[0], flag[1] and
\* turn after every step, every thread is at the corresponding position, and
\* the same identity has been admitted.
C20_VariantEquivalence ==
    ~AnyTimeout =>
       /\ basic.flag = flag
       /\ basic.turn = turn
       /\ \A t \in Threads : basic.pc[t] = BasicPosition(pc[t])
       /\ \A t \in Threads : basic.pc[t] = "cs" <=> Holds(t) \/ pc[t] = "acquired"

\* Identity 0 has been admitted for the second time, in both variants, while
\* identity 1 waits.
C20_Witness ==
    /\ ~AnyTimeout
    /\ pc[0] = "held" /\ basic.pc[0] = "cs"
    /\ stats[0].entries = 2
    /\ pc[1] = "chk_time" /\ basic.pc[1] = "chk_flag"
    /\ basic.flag[0] /\ basic.flag[1] /\ basic.turn = 0

====
